---- MODULE Spec2Model ----
(***************************************************************************)
(* Model of the EBS autoscaler's capacity manager (EBSManager, lib.rs) and *)
(* of the collaborators it drives through trait objects: the disk manager  *)
(* (DiskMgr), the volume provider (AWS) and the filesystem expander (FS).  *)
(*                                                                         *)
(* One state is one EBSManager together with the outcome of the last       *)
(* operation called on it: the value it returned and the collaborator      *)
(* calls it made, in order, as a recording test double would see them.     *)
(***************************************************************************)
EXTENDS Integers, Sequences, FiniteSets, TLC

VARIABLES
    config,     \* EBSManager.config
    diskmgr,    \* EBSManager.diskmgr  (Box<dyn DiskMgr>)
    aws,        \* EBSManager.aws      (Box<dyn AWS>)
    fs,         \* EBSManager.fs       (Box<dyn FS>)
    last_op,    \* the operation last called on the manager, with its argument
    result,     \* what that operation returned
    calls       \* the collaborator calls that operation made, in order

vars == <<config, diskmgr, aws, fs, last_op, result, calls>>

-----------------------------------------------------------------------------
(* Bounds of the model *)

\* device counts range over 0..MaxDevCount
MaxDevCount == 11

\* in the policy specification the initial threshold ranges over 0..MaxThreshold
MaxThreshold == 100

-----------------------------------------------------------------------------
(* Result<T, E> and Option<T> values *)

Ok(v) == [kind |-> "Ok", val |-> v, err |-> "none"]

Err(e) == [kind |-> "Err", val |-> FALSE, err |-> e]

\* a panic unwinding out of the operation (division by zero, a failed unwrap)
Panic == [kind |-> "Panic", val |-> FALSE, err |-> "panic"]

\* no operation has been called yet
NoResult == [kind |-> "None", val |-> FALSE, err |-> "none"]

\* u32::try_from(q * 100) fails when q * 100 > u32::MAX = 4294967295
try_into_u32_fails(q) == q > 42949672

-----------------------------------------------------------------------------
(* Configuration *)

DefaultMountpoint == "/dev/xvdba"

\* Config::default(), with the limits left to the configuration file
ConfigWith(del_on_term, threshold, max_count) ==
    [ ensure_ebs_deleted_on_term |-> del_on_term,
      mountpoint |-> DefaultMountpoint,
      limits |-> [ initial_utilization_threshold |-> threshold,
                   min_ebs_volume_size |-> 10,
                   max_ebs_volume_size |-> 1000,
                   max_logical_volume_size |-> 1000,
                   max_ebs_volume_count |-> max_count ] ]

\* initial_utilization_threshold values loaded from the configuration file
InitialThresholds == {50, 80, 95}

\* max_ebs_volume_count values loaded from the configuration file
VolumeCountLimits == {8}

Configs ==
    { ConfigWith(d, t, m) : d \in BOOLEAN, t \in InitialThresholds,
                            m \in VolumeCountLimits }

-----------------------------------------------------------------------------
(* Disk manager: the two implementations of the DiskMgr trait *)

\* utilization percentages a MockDiskMgr is set up to report
Utilizations == {10, 80, 85, 90, 95}

\* total sizes a MockDiskMgr is set up to report
DiskSizes == {100, 1000, 1001}

\* <<total_space, available_space>> of the disk behind a ConcreteDiskMgr
DiskSpaces == { <<100, 40>>, <<1000, 1000>>, <<1000, 0>> }

MockDiskMgr(util, size, no_names) ==
    [ kind |-> "Mock",
      disks |-> {"test"},
      utilization_percentage |-> util,
      total_disk_size |-> size,
      sim_no_more_device_names |-> no_names,
      total_space |-> 0,
      available_space |-> 0 ]

\* a ConcreteDiskMgr whose disk list holds one disk, mounted at mount
ConcreteDiskMgr(mount, total, available) ==
    [ kind |-> "Concrete",
      disks |-> {mount},
      utilization_percentage |-> 0,
      total_disk_size |-> 0,
      sim_no_more_device_names |-> FALSE,
      total_space |-> total,
      available_space |-> available ]

DiskMgrs ==
    { MockDiskMgr(u, s, n) : u \in Utilizations, s \in DiskSizes, n \in BOOLEAN }
    \cup
    { ConcreteDiskMgr(m, sp[1], sp[2]) : m \in {DefaultMountpoint, "/"},
                                         sp \in DiskSpaces }

\* DiskMgr::disk_usage_percent
disk_usage_percent(dm, mountpoint) ==
    IF dm.kind = "Mock" THEN Ok(dm.utilization_percentage)
    ELSE IF mountpoint \in dm.disks
         THEN IF dm.available_space = 0 THEN Panic
              ELSE LET q == dm.total_space \div dm.available_space
                   IN  IF try_into_u32_fails(q) THEN Panic ELSE Ok(q * 100)
         ELSE Err("MountPointNotFoundError")

\* a disk_size that reports size 0 for a mount point it does not find
disk_size_or_zero(dm, mountpoint) ==
    IF dm.kind = "Mock" THEN Ok(dm.total_disk_size)
    ELSE IF mountpoint \in dm.disks THEN Ok(dm.total_space)
         ELSE Ok(0)

\* DiskMgr::disk_size
disk_size(dm, mountpoint) ==
    IF dm.kind = "Mock" THEN Ok(dm.total_disk_size)
    ELSE IF mountpoint \in dm.disks THEN Ok(dm.total_space)
         ELSE Err("MountPointNotFoundError")

\* DiskMgr::get_next_logical_device (disk.rs)
diskmgr_get_next_logical_device(dm) ==
    IF dm.kind = "Mock" /\ dm.sim_no_more_device_names
    THEN Err("NoMoreDeviceNamesAvailableError")
    ELSE Ok("/dev/test")

-----------------------------------------------------------------------------
(* Volume provider: the AWS trait *)

AwsOps == {"request_ebs_volume", "attach_ebs_volume", "tag_as_delete_on_term"}

\* attached-device counts a provider reports
ProviderCounts == {1, 5, 10}

\* A provider: the calls that fail on it, and the attached-device count it
\* reports. MockAWS { simulate_aws_err: true } is the one on which all fail.
Providers ==
    [ failing : SUBSET AwsOps, mounted_devices_count : ProviderCounts ]

request_ebs_volume(a, size) ==
    IF "request_ebs_volume" \in a.failing THEN Err("GenericAWSError")
    ELSE Ok("/dev/test")

attach_ebs_volume(a, device) ==
    IF "attach_ebs_volume" \in a.failing THEN Err("GenericAWSError")
    ELSE Ok("/dev/test")

tag_as_delete_on_term(a, device) ==
    IF "tag_as_delete_on_term" \in a.failing THEN Err("GenericAWSError")
    ELSE Ok("/dev/test")

count_mounted_ebs_volumes(a) == a.mounted_devices_count

-----------------------------------------------------------------------------
(* Filesystem expander: the FS trait *)

Expanders == [ simulate_fs_err : BOOLEAN ]

expand_volume(f, dev) ==
    IF f.simulate_fs_err THEN Err("GenericFSError") ELSE Ok(TRUE)

-----------------------------------------------------------------------------
(* EBSManager: the capacity policy *)

\* EBSManager::count_mounted_ebs_devices: Some(10), whatever is attached
count_mounted_ebs_devices == 10

\* a calc_threshold whose first tier starts one device late
calc_threshold_late_tier(cfg, dev_count) ==
    IF dev_count > 4 /\ dev_count <= 6 THEN 80
    ELSE IF dev_count > 6 /\ dev_count <= 10 THEN 90
    ELSE IF dev_count > 10 THEN 90
    ELSE cfg.limits.initial_utilization_threshold

\* a calc_threshold whose 80 and 90 tiers are exchanged
calc_threshold_swapped_tiers(cfg, dev_count) ==
    IF dev_count >= 4 /\ dev_count <= 6 THEN 90
    ELSE IF dev_count > 6 /\ dev_count <= 10 THEN 80
    ELSE IF dev_count > 10 THEN 80
    ELSE cfg.limits.initial_utilization_threshold

\* EBSManager::calc_threshold
calc_threshold(cfg, dev_count) ==
    IF dev_count >= 4 /\ dev_count <= 6 THEN 80
    ELSE IF dev_count > 6 /\ dev_count <= 10 THEN 90
    ELSE IF dev_count > 10 THEN 90
    ELSE cfg.limits.initial_utilization_threshold

\* EBSManager::calc_new_size: Some(10), whatever the count
calc_new_size(cfg, dev_count) == 10

\* EBSManager::get_next_logical_device: a private helper no operation calls
get_next_logical_device == "/dev/xvdb"

-----------------------------------------------------------------------------
(* EBSManager: the two entry points. Each yields the value returned and    *)
(* the collaborator calls made, in order.                                  *)

Outcome(res, log) == [res |-> res, calls |-> log]

\* one recorded collaborator call: which, whether it succeeded, its error if not
Call(name, r) == [call |-> name, ok |-> r.kind = "Ok", err |-> r.err]

\* if disk_utilization >= threshold
utilization_reached(disk_utilization, threshold) ==
    disk_utilization >= threshold

\* EBSManager::need_more_space
need_more_space(cfg, dm, a) ==
    LET dev_count == count_mounted_ebs_devices
        threshold == calc_threshold(cfg, dev_count)
        disk_utilization == disk_usage_percent(dm, cfg.mountpoint)
        log == <<Call("disk_usage_percent", disk_utilization)>>
    IN  IF disk_utilization.kind # "Ok"
        THEN Outcome(disk_utilization, log)               \* the ? operator
        ELSE Outcome(Ok(utilization_reached(disk_utilization.val, threshold)),
                     log)

\* a count check that lets a count equal to the limit through
count_limit_reached_strict(cfg, dev_count) ==
    dev_count > cfg.limits.max_ebs_volume_count

\* if dev_count >= self.config.limits.max_ebs_volume_count
count_limit_reached(cfg, dev_count) ==
    dev_count >= cfg.limits.max_ebs_volume_count

\* a size check that lets a size equal to the limit through
logical_size_limit_reached_strict(cfg, cur_size) ==
    cur_size > cfg.limits.max_logical_volume_size

\* if cur_size >= self.config.limits.max_logical_volume_size.into()
logical_size_limit_reached(cfg, cur_size) ==
    cur_size >= cfg.limits.max_logical_volume_size

\* a chain that runs the next step whatever the previous one returned
and_then_runs_always(r) == TRUE

\* Result::and_then runs its closure on Ok only and passes an Err through
and_then_runs(r) == r.kind = "Ok"

\* an expand step whose failure is swallowed
map_err_expand_swallowed(r) ==
    IF r.kind = "Err" THEN Ok(TRUE) ELSE r

\* .map_err(|_e| Box::new(GenericAWSError)) on the result of expand_volume
map_err_expand(r) ==
    IF r.kind = "Err" THEN Err("GenericAWSError") ELSE r

\* the chain request_ebs_volume . and_then(attach) . and_then(expand)
provision(a, f, new_size, log0) ==
    LET r1 == request_ebs_volume(a, new_size)
        l1 == Append(log0, Call("request_ebs_volume", r1))
        run2 == and_then_runs(r1)
        a2 == attach_ebs_volume(a, r1.val)
        r2 == IF run2 THEN a2 ELSE r1
        l2 == IF run2 THEN Append(l1, Call("attach_ebs_volume", a2)) ELSE l1
        run3 == and_then_runs(r2)
        e3 == expand_volume(f, r2.val)
        r3 == IF run3 THEN map_err_expand(e3) ELSE r2
        l3 == IF run3 THEN Append(l2, Call("expand_volume", e3)) ELSE l2
    IN  Outcome(r3, l3)                                   \* Ok(chain?)

\* EBSManager::add_more_space
add_more_space(cfg, dm, a, f, dev_count) ==
    IF count_limit_reached(cfg, dev_count)
    THEN Outcome(Err("MaxEBSCountExceededError"), <<>>)
    ELSE LET cur_size == disk_size(dm, cfg.mountpoint)
             log == <<Call("disk_size", cur_size)>>
         IN  IF cur_size.kind # "Ok"
             THEN Outcome(cur_size, log)                  \* the ? operator
             ELSE IF logical_size_limit_reached(cfg, cur_size.val)
                  THEN Outcome(Err("MaxLogicalVolumeSizeExceededError"), log)
                  ELSE provision(a, f, calc_new_size(cfg, dev_count), log)

-----------------------------------------------------------------------------
(* The state machine *)

DevCounts == 0..MaxDevCount

Op(name, dev_count) == [name |-> name, dev_count |-> dev_count]

\* EBSManager::new over every configuration and collaborator of the model
Init ==
    /\ config \in Configs
    /\ diskmgr \in DiskMgrs
    /\ aws \in Providers
    /\ fs \in Expanders
    /\ last_op = Op("new", 0)
    /\ result = NoResult
    /\ calls = <<>>

\* a call of need_more_space()
NeedMoreSpace ==
    LET out == need_more_space(config, diskmgr, aws)
    IN  /\ last_op' = Op("need_more_space", 0)
        /\ result' = out.res
        /\ calls' = out.calls
        /\ UNCHANGED <<config, diskmgr, aws, fs>>

\* a call of add_more_space(dev_count)
AddMoreSpace ==
    \E dev_count \in DevCounts :
        LET out == add_more_space(config, diskmgr, aws, fs, dev_count)
        IN  /\ last_op' = Op("add_more_space", dev_count)
            /\ result' = out.res
            /\ calls' = out.calls
            /\ UNCHANGED <<config, diskmgr, aws, fs>>

Next == NeedMoreSpace \/ AddMoreSpace

Spec == Init /\ [][Next]_vars

-----------------------------------------------------------------------------
(* The capacity policy on its own: calc_threshold applied to every device  *)
(* count under every initial threshold, as test_calc_threshold applies it. *)

DefaultMaxVolumeCount == 100

InitPolicy ==
    /\ config \in { ConfigWith(TRUE, t, DefaultMaxVolumeCount) :
                        t \in 0..MaxThreshold }
    /\ diskmgr = MockDiskMgr(10, 100, FALSE)
    /\ aws = [failing |-> {}, mounted_devices_count |-> 1]
    /\ fs = [simulate_fs_err |-> FALSE]
    /\ last_op = Op("new", 0)
    /\ result = NoResult
    /\ calls = <<>>

\* a call of calc_threshold(dev_count)
CalcThreshold ==
    \E dev_count \in DevCounts :
        /\ last_op' = Op("calc_threshold", dev_count)
        /\ result' = [kind |-> "Some", val |-> calc_threshold(config, dev_count),
                      err |-> "none"]
        /\ calls' = <<>>
        /\ UNCHANGED <<config, diskmgr, aws, fs>>

NextPolicy == CalcThreshold

SpecPolicy == InitPolicy /\ [][NextPolicy]_vars

-----------------------------------------------------------------------------
(* Vocabulary of the properties *)

IsNeed == last_op.name = "need_more_space"

IsAdd == last_op.name = "add_more_space"

CallIdx == 1..Len(calls)

\* the positions in the call log of the calls of one operation
IdxOf(name) == { i \in CallIdx : calls[i].call = name }

Called(name) == IdxOf(name) # {}

Succeeded(name) == \E i \in IdxOf(name) : calls[i].ok

Failed(name) == \E i \in IdxOf(name) : ~calls[i].ok

ProviderCalls ==
    {"request_ebs_volume", "attach_ebs_volume", "tag_as_delete_on_term",
     "delete_ebs_volume", "count_mounted_ebs_volumes",
     "get_managed_ebs_volumes"}

ProvisioningCalls ==
    {"request_ebs_volume", "attach_ebs_volume", "tag_as_delete_on_term"}

NoCallOf(names) == \A i \in CallIdx : calls[i].call \notin names

\* the configured mount point is not among the disks the inspector lists
MountUnresolved ==
    diskmgr.kind = "Concrete" /\ config.mountpoint \notin diskmgr.disks

CountCheckPasses == last_op.dev_count < config.limits.max_ebs_volume_count

-----------------------------------------------------------------------------
(* C1 *)

\* C1: need_more_space returns true iff the utilization the Disk Inspector
\* reports is >= the threshold calc_threshold gives for the attached-device
\* count the Volume Provider reports, and false otherwise.
C1_NeedUsesProviderCount ==
    (IsNeed /\ Succeeded("disk_usage_percent")) =>
        LET reported == disk_usage_percent(diskmgr, config.mountpoint).val
            threshold == calc_threshold(config, count_mounted_ebs_volumes(aws))
        IN  result = Ok(reported >= threshold)

-----------------------------------------------------------------------------
(* C2 *)

IsCalcThreshold == last_op.name = "calc_threshold"

\* C2: calc_threshold always returns a value: the initial utilization
\* threshold for a count below 4, 80 for a count in 4..6, 90 above 6.
C2_ThresholdTiers ==
    IsCalcThreshold =>
        /\ result.kind = "Some"
        /\ (last_op.dev_count < 4 =>
                result.val = config.limits.initial_utilization_threshold)
        /\ (last_op.dev_count \in 4..6 => result.val = 80)
        /\ (last_op.dev_count > 6 => result.val = 90)

\* calc_threshold(4), the lowest count of the 80 tier, under a configuration
\* whose initial threshold is not 80
C2_Witness ==
    /\ IsCalcThreshold
    /\ last_op.dev_count = 4
    /\ config.limits.initial_utilization_threshold = 50
    /\ result.val = 80

-----------------------------------------------------------------------------
(* C3 *)

\* C3: add_more_space(dev_count) with dev_count >= max_ebs_volume_count
\* fails with MaxEBSCountExceededError and makes no collaborator call.
C3_CountLimit ==
    (IsAdd /\ last_op.dev_count >= config.limits.max_ebs_volume_count) =>
        /\ result = Err("MaxEBSCountExceededError")
        /\ calls = <<>>

\* add_more_space with the count exactly at the limit was refused
C3_Witness ==
    /\ IsAdd
    /\ last_op.dev_count = config.limits.max_ebs_volume_count
    /\ result = Err("MaxEBSCountExceededError")

-----------------------------------------------------------------------------
(* C4 *)

\* C4: when the count check passes and the Disk Inspector reports a size
\* >= max_logical_volume_size, add_more_space fails with
\* MaxLogicalVolumeSizeExceededError, having made no request, attach, tag or
\* expand call.
C4_LogicalSizeLimit ==
    (/\ IsAdd
     /\ CountCheckPasses
     /\ disk_size(diskmgr, config.mountpoint).kind = "Ok"
     /\ disk_size(diskmgr, config.mountpoint).val
            >= config.limits.max_logical_volume_size) =>
        /\ result = Err("MaxLogicalVolumeSizeExceededError")
        /\ NoCallOf(ProvisioningCalls \cup {"expand_volume"})

\* add_more_space was refused with the size exactly at the limit
C4_Witness ==
    /\ IsAdd
    /\ CountCheckPasses
    /\ Succeeded("disk_size")
    /\ disk_size(diskmgr, config.mountpoint).val
           = config.limits.max_logical_volume_size
    /\ result = Err("MaxLogicalVolumeSizeExceededError")

-----------------------------------------------------------------------------
(* C5 *)

AtMostOnce(name) == Cardinality(IdxOf(name)) <= 1

\* every call of operation name comes after a successful call of operation prev
OnlyAfterSuccessful(name, prev) ==
    \A i \in IdxOf(name) :
        \E j \in IdxOf(prev) : j < i /\ calls[j].ok

\* C5: the pipeline of add_more_space short-circuits on the first failure: a
\* failing call is the last call made and add_more_space returns an error;
\* nothing is deleted; attach runs only after a successful request, expand
\* only after a successful attach, each at most once.
C5_ShortCircuit ==
    IsAdd =>
        /\ \A i \in CallIdx :
               ~calls[i].ok => (i = Len(calls) /\ result.kind = "Err")
        /\ ~Called("delete_ebs_volume")
        /\ OnlyAfterSuccessful("attach_ebs_volume", "request_ebs_volume")
        /\ OnlyAfterSuccessful("expand_volume", "attach_ebs_volume")
        /\ AtMostOnce("request_ebs_volume")
        /\ AtMostOnce("attach_ebs_volume")
        /\ AtMostOnce("expand_volume")

\* the attach failed after a successful request, and no expand followed
C5_Witness ==
    /\ IsAdd
    /\ Succeeded("request_ebs_volume")
    /\ Failed("attach_ebs_volume")
    /\ ~Called("expand_volume")
    /\ result.kind = "Err"

-----------------------------------------------------------------------------
(* C6 *)

LimitViolated ==
    \/ ~CountCheckPasses
    \/ /\ disk_size(diskmgr, config.mountpoint).kind = "Ok"
       /\ disk_size(diskmgr, config.mountpoint).val
              >= config.limits.max_logical_volume_size

AllCallsSucceeded == \A i \in CallIdx : calls[i].ok

\* C6: add_more_space returns Ok(true) exactly when both limit checks pass
\* and every collaborator call it made succeeded.
C6_TrueIffAllSucceeded ==
    IsAdd => (result = Ok(TRUE) <=> (~LimitViolated /\ AllCallsSucceeded))

\* add_more_space returned Ok(true) after a request, an attach and an expand
C6_Witness ==
    /\ IsAdd
    /\ result = Ok(TRUE)
    /\ Succeeded("request_ebs_volume")
    /\ Succeeded("attach_ebs_volume")
    /\ Succeeded("expand_volume")

-----------------------------------------------------------------------------
(* C7 *)

\* C7: the error add_more_space returns is the error of the collaborator
\* call that failed: GenericFSError for a failed expand, GenericAWSError for
\* a failed request or attach.
C7_ErrorsPropagatedUnchanged ==
    IsAdd => \A i \in CallIdx : ~calls[i].ok => result = Err(calls[i].err)

-----------------------------------------------------------------------------
(* C8 *)

MountPointNotFoundReturned ==
    /\ result = Err("MountPointNotFoundError")
    /\ NoCallOf(ProviderCalls \cup {"expand_volume"})

\* C8 as stated: whenever the Disk Inspector cannot resolve the configured
\* mount point, need_more_space and add_more_space return
\* MountPointNotFoundError and call neither the provider nor the expander.
C8_MountPointNotFoundAlways ==
    ((IsNeed \/ IsAdd) /\ MountUnresolved) => MountPointNotFoundReturned

\* C8 as amended: the same, for add_more_space only when the device count is
\* below max_ebs_volume_count (at or above it the count check fails first and
\* the Disk Inspector is never asked).
C8_MountPointNotFound ==
    ((IsNeed \/ (IsAdd /\ CountCheckPasses)) /\ MountUnresolved) =>
        MountPointNotFoundReturned

\* add_more_space passed the count check and met an unresolved mount point
C8_Witness ==
    /\ IsAdd
    /\ CountCheckPasses
    /\ MountUnresolved
    /\ Failed("disk_size")
    /\ result = Err("MountPointNotFoundError")

-----------------------------------------------------------------------------
(* C9 *)

\* C9: after a successful request add_more_space asks the Disk Inspector for
\* the next device name before attaching; when none is available it returns
\* NoMoreDeviceNamesAvailableError and makes no attach, tag, expand or delete
\* call.
C9_DeviceNaming ==
    (IsAdd /\ Succeeded("request_ebs_volume")) =>
        /\ \E n \in IdxOf("get_next_logical_device") :
               /\ \E j \in IdxOf("request_ebs_volume") : j < n
               /\ \A k \in IdxOf("attach_ebs_volume") : n < k
        /\ diskmgr_get_next_logical_device(diskmgr).kind = "Err" =>
               /\ result = Err("NoMoreDeviceNamesAvailableError")
               /\ NoCallOf({"attach_ebs_volume", "tag_as_delete_on_term",
                            "expand_volume", "delete_ebs_volume"})

-----------------------------------------------------------------------------
(* C10 *)

\* C10: with ensure_ebs_deleted_on_term set, a successful attach is followed
\* at once by a tag_as_delete_on_term call, before any expand; a failed tag
\* makes add_more_space return an error with no expand and no delete. With
\* the flag unset no tag call is made.
C10_TagAfterAttach ==
    IsAdd =>
        IF config.ensure_ebs_deleted_on_term
        THEN \A i \in IdxOf("attach_ebs_volume") :
                 calls[i].ok =>
                     /\ i + 1 \in CallIdx
                     /\ calls[i + 1].call = "tag_as_delete_on_term"
                     /\ ~calls[i + 1].ok =>
                            /\ result.kind = "Err"
                            /\ ~Called("expand_volume")
                            /\ ~Called("delete_ebs_volume")
        ELSE ~Called("tag_as_delete_on_term")

-----------------------------------------------------------------------------
(* The sizing policy on its own: calc_new_size applied to every device     *)
(* count under every pair of volume-size limits the data model allows, as  *)
(* test_calc_new_size applies it.                                          *)

\* in the sizing specification the volume-size limits range over 1..MaxVolumeSize
MaxVolumeSize == 12

\* a configuration with the given volume-size limits, the rest as by default
ConfigSized(min_size, max_size) ==
    [ ConfigWith(TRUE, 80, DefaultMaxVolumeCount) EXCEPT
          !.limits.min_ebs_volume_size = min_size,
          !.limits.max_ebs_volume_size = max_size ]

InitSizing ==
    /\ config \in { ConfigSized(mn, mx) :
                        mn \in 1..MaxVolumeSize, mx \in 1..MaxVolumeSize }
    /\ config.limits.min_ebs_volume_size <= config.limits.max_ebs_volume_size
    /\ diskmgr = MockDiskMgr(10, 100, FALSE)
    /\ aws = [failing |-> {}, mounted_devices_count |-> 1]
    /\ fs = [simulate_fs_err |-> FALSE]
    /\ last_op = Op("new", 0)
    /\ result = NoResult
    /\ calls = <<>>

\* a call of calc_new_size(dev_count)
CalcNewSize ==
    \E dev_count \in DevCounts :
        /\ last_op' = Op("calc_new_size", dev_count)
        /\ result' = [kind |-> "Some", val |-> calc_new_size(config, dev_count),
                      err |-> "none"]
        /\ calls' = <<>>
        /\ UNCHANGED <<config, diskmgr, aws, fs>>

NextSizing == CalcNewSize

SpecSizing == InitSizing /\ [][NextSizing]_vars

-----------------------------------------------------------------------------
(* C11 *)

IsCalcNewSize == last_op.name = "calc_new_size"

\* the data-model invariant: every limit positive, min size <= max size
LimitsValid ==
    /\ config.limits.initial_utilization_threshold > 0
    /\ config.limits.min_ebs_volume_size > 0
    /\ config.limits.max_ebs_volume_size > 0
    /\ config.limits.max_logical_volume_size > 0
    /\ config.limits.max_ebs_volume_count > 0
    /\ config.limits.min_ebs_volume_size <= config.limits.max_ebs_volume_size

\* C11: under limits that satisfy the data-model invariant, calc_new_size
\* returns a size s with min_ebs_volume_size <= s <= max_ebs_volume_size.
C11_SizeWithinLimits ==
    (IsCalcNewSize /\ LimitsValid) =>
        /\ result.kind = "Some"
        /\ config.limits.min_ebs_volume_size <= result.val
        /\ result.val <= config.limits.max_ebs_volume_size

-----------------------------------------------------------------------------
(* C12 *)

\* no smaller device count has a higher threshold than the one just computed
NoLowerCountAbove ==
    \A a \in 0..last_op.dev_count :
        calc_threshold(config, a) <= result.val

\* C12 as stated: under any positive initial threshold, calc_threshold is
\* monotone in the device count: a <= b implies threshold(a) <= threshold(b).
C12_MonotoneAnyThreshold ==
    (IsCalcThreshold /\ config.limits.initial_utilization_threshold > 0) =>
        NoLowerCountAbove

\* C12 as amended: the same under a positive initial threshold of at most 80,
\* the value of the first fixed tier.
C12_MonotoneUpTo80 ==
    (/\ IsCalcThreshold
     /\ config.limits.initial_utilization_threshold > 0
     /\ config.limits.initial_utilization_threshold <= 80) =>
        NoLowerCountAbove

\* the threshold of a count in the last tier, above those of the counts below
\* it, under an initial threshold of exactly 80
C12_Witness ==
    /\ IsCalcThreshold
    /\ last_op.dev_count = MaxDevCount
    /\ config.limits.initial_utilization_threshold = 80
    /\ result.val = 90
    /\ calc_threshold(config, 3) = 80

-----------------------------------------------------------------------------
(* Serialized decision cycles in which the logical volume grows: each      *)
(* add_more_space that returns Ok(true) has added a volume of the size     *)
(* calc_new_size selected, and the Disk Inspector reports the larger size  *)
(* from then on.                                                           *)

\* the logical volume starts at most MaxStartDeficit below its ceiling
MaxStartDeficit == 25

InitGrowth ==
    /\ config \in Configs
    /\ config.ensure_ebs_deleted_on_term
    /\ config.limits.initial_utilization_threshold = 80
    /\ \E deficit \in 0..MaxStartDeficit :
           diskmgr = MockDiskMgr(95,
                         config.limits.max_logical_volume_size - deficit,
                         FALSE)
    /\ aws \in Providers
    /\ aws.mounted_devices_count = 1
    /\ fs \in Expanders
    /\ last_op = Op("new", 0)
    /\ result = NoResult
    /\ calls = <<>>

\* a call of add_more_space(dev_count), after which the disk is larger by the
\* selected size when the call returned Ok(true)
AddMoreSpaceGrowing ==
    \E dev_count \in DevCounts :
        LET out == add_more_space(config, diskmgr, aws, fs, dev_count)
            new_size == calc_new_size(config, dev_count)
        IN  /\ last_op' = Op("add_more_space", dev_count)
            /\ result' = out.res
            /\ calls' = out.calls
            /\ diskmgr' = IF out.res = Ok(TRUE)
                          THEN [diskmgr EXCEPT !.total_disk_size = @ + new_size]
                          ELSE diskmgr
            /\ UNCHANGED <<config, aws, fs>>

NextGrowth == AddMoreSpaceGrowing

SpecGrowth == InitGrowth /\ [][NextGrowth]_vars

-----------------------------------------------------------------------------
(* C13 *)

\* the logical size once the volume requested by the last add_more_space is
\* part of it: the size now reported if the call succeeded, that size plus the
\* selected size if the call failed after the request
SizeWithSelected ==
    IF result = Ok(TRUE) THEN diskmgr.total_disk_size
    ELSE diskmgr.total_disk_size + calc_new_size(config, last_op.dev_count)

\* C13: an add_more_space that passes the logical-size check selects a size
\* that keeps current size + selected size <= max_logical_volume_size, so over
\* growing decision cycles the logical size never exceeds the ceiling.
C13_CeilingNeverExceeded ==
    /\ (IsAdd /\ Called("request_ebs_volume")) =>
           SizeWithSelected <= config.limits.max_logical_volume_size
    /\ diskmgr.total_disk_size <= config.limits.max_logical_volume_size

-----------------------------------------------------------------------------
(* The Disk Inspector's usage percent on its own: ConcreteDiskMgr's        *)
(* disk_usage_percent applied to a disk mounted at the configured mount    *)
(* point, for every total space 1..MaxSpace and available space 0..total.  *)

MaxSpace == 12

InitUsage ==
    /\ config = ConfigWith(TRUE, 80, DefaultMaxVolumeCount)
    /\ \E total \in 1..MaxSpace :
           \E available \in 0..total :
               diskmgr = ConcreteDiskMgr(DefaultMountpoint, total, available)
    /\ aws = [failing |-> {}, mounted_devices_count |-> 1]
    /\ fs = [simulate_fs_err |-> FALSE]
    /\ last_op = Op("new", 0)
    /\ result = NoResult
    /\ calls = <<>>

\* a call of diskmgr.disk_usage_percent(mountpoint)
DiskUsagePercent ==
    /\ last_op' = Op("disk_usage_percent", 0)
    /\ result' = disk_usage_percent(diskmgr, config.mountpoint)
    /\ calls' = <<>>
    /\ UNCHANGED <<config, diskmgr, aws, fs>>

NextUsage == DiskUsagePercent

SpecUsage == InitUsage /\ [][NextUsage]_vars

-----------------------------------------------------------------------------
(* C14 *)

IsDiskUsagePercent == last_op.name = "disk_usage_percent"

UsedSpace == diskmgr.total_space - diskmgr.available_space

\* p is the used share of the disk in percent, to within one point of rounding
IsUsedPercent(p) ==
    /\ p * diskmgr.total_space > UsedSpace * 100 - diskmgr.total_space
    /\ p * diskmgr.total_space < UsedSpace * 100 + diskmgr.total_space

\* C14: for a mount point that is found, with total_space >= available_space
\* >= 0 and total_space > 0, disk_usage_percent returns without failing the
\* percentage of the disk that is used, a value in 0..100.
C14_UsagePercent ==
    (/\ IsDiskUsagePercent
     /\ diskmgr.kind = "Concrete"
     /\ config.mountpoint \in diskmgr.disks
     /\ diskmgr.total_space > 0
     /\ diskmgr.available_space >= 0
     /\ diskmgr.total_space >= diskmgr.available_space) =>
        /\ result.kind = "Ok"
        /\ result.val \in 0..100
        /\ IsUsedPercent(result.val)

-----------------------------------------------------------------------------
(* add_more_space over a ConcreteDiskMgr, whose disk_size is the disk's     *)
(* total_space in bytes, under limits configured in GB.                    *)

\* bytes in one GB (GiB)
BytesPerGB == 2^30

\* total_space of the disk, in bytes: half a GB, one GB, one and a half GB
DiskBytes == { BytesPerGB \div 2, BytesPerGB, BytesPerGB + BytesPerGB \div 2 }

InitUnits ==
    /\ config \in Configs
    /\ \E total \in DiskBytes :
           diskmgr = ConcreteDiskMgr(DefaultMountpoint, total, total \div 2)
    /\ aws \in Providers
    /\ aws.mounted_devices_count = 1
    /\ fs \in Expanders
    /\ last_op = Op("new", 0)
    /\ result = NoResult
    /\ calls = <<>>

NextUnits == AddMoreSpace

SpecUnits == InitUnits /\ [][NextUnits]_vars

-----------------------------------------------------------------------------
(* C15 *)

\* the size of the logical volume in whole GB
SizeInGB == diskmgr.total_space \div BytesPerGB

\* C15: with the Disk Inspector reporting bytes and max_logical_volume_size
\* in GB, add_more_space does not fail with
\* MaxLogicalVolumeSizeExceededError while the volume's size in GB is below
\* max_logical_volume_size.
C15_LikeUnits ==
    (/\ IsAdd
     /\ diskmgr.kind = "Concrete"
     /\ config.mountpoint \in diskmgr.disks
     /\ SizeInGB < config.limits.max_logical_volume_size) =>
        result # Err("MaxLogicalVolumeSizeExceededError")

====
